---- MODULE Spec2Model ----
(***************************************************************************)
(* Colour ASCII video converter (EnhancedASCIIConverter and main).          *)
(*                                                                         *)
(* Three specifications share the variables below:                          *)
(*   Spec      the whole program: main, convertToColorASCII and its         *)
(*             per-frame loop, against an environment that decides whether  *)
(*             the input opens, what metadata it reports, which codecs can  *)
(*             open the output and when the source runs out of frames;      *)
(*   SpecGrid  the grid computation of convertToColorASCII alone, over all  *)
(*             accepted widths and a range of source geometries;            *)
(*   SpecGlyph the luminance computation and getASCIIChar alone, over       *)
(*             sampled pixels and brightness values.                        *)
(*                                                                         *)
(* OpenCV calls (VideoCapture, VideoWriter, resize, putText) are the        *)
(* environment: they are modelled by their documented result (opened or     *)
(* not, a frame or an empty frame), never as throwing.                      *)
(***************************************************************************)
EXTENDS Integers, Sequences, FiniteSets, TLC

VARIABLES
    \* ---- command line (main) ----
    argc,            \* number of command-line words, program name included
    argv3,           \* argv[3] as a sequence of characters (<<>> when absent)
    asciiWidth,      \* main's and convertToColorASCII's asciiWidth
    exitCode,        \* value returned by main; -1 while main is running
    pc,              \* position in main / convertToColorASCII
    \* ---- environment ----
    available,       \* fourcc codes the VideoWriter backend is able to open
    \* ---- convertToColorASCII locals ----
    cap,             \* cv::VideoCapture: "none", "failed", "open", "released"
    totalFrames,     \* CAP_PROP_FRAME_COUNT
    originalWidth,   \* CAP_PROP_FRAME_WIDTH
    originalHeight,  \* CAP_PROP_FRAME_HEIGHT
    asciiHeight,
    frameSize,       \* cv::Size handed to writer.open: <<width, height>>
    writer,          \* cv::VideoWriter: "none", "closed", "open", "released"
    writerOpened,
    tried,           \* codecs handed to writer.open so far, in call order
    usedCodec,       \* codec of the successful writer.open ("" when none)
    delivered,       \* frames the source has produced so far
    frame,           \* cv::Mat frame: 0 = empty, k = the k-th frame of the source
    asciiFrame,      \* cv::Mat asciiFrame: [src, w, h]
    written,         \* frames handed to writer.write, in call order
    frameCount,      \* EnhancedASCIIConverter::frameCount
    progress,        \* progress lines printed, in order
    convertResult,   \* "none", "true", "false": value returned by convertToColorASCII
    \* ---- glyph mapping (generateColorASCIIFrame / getASCIIChar) ----
    gpc,             \* "off", "pixel", "map", "done"
    pixel,           \* cv::Vec3b <<blue, green, red>>
    brightness,      \* double handed to getASCIIChar
    brightness2,     \* a second brightness, mapped alongside the first
    index,           \* ramp index selected for brightness
    index2,          \* ramp index selected for brightness2
    glyph,           \* character returned for brightness
    \* ---- the input file and the output of a run ----
    content,         \* the input's frames: content[k] is the colour of frame k
    glyphs,          \* ramp indices selected for the frames transformed so far
    \* ---- a second run over the same input ----
    variant,         \* the program running: "part_000" or "miku" (src/miku.cpp)
    run,             \* 1, or 2 for the second run
    firstRun         \* what the first run ended with (NoRun during the first run)

vars == <<argc, argv3, asciiWidth, exitCode, pc, available, cap, totalFrames,
          originalWidth, originalHeight, asciiHeight, frameSize, writer,
          writerOpened, tried, usedCodec, delivered, frame, asciiFrame, written,
          frameCount, progress, convertResult,
          gpc, pixel, brightness, brightness2, index, index2, glyph,
          content, glyphs, variant, run, firstRun>>

mainVars == <<argc, argv3, asciiWidth, exitCode>>
runVars == <<cap, totalFrames, originalWidth, originalHeight, asciiHeight,
             frameSize, writer, writerOpened, tried, usedCodec, delivered, frame,
             asciiFrame, written, frameCount, progress, convertResult, glyphs>>
carryVars == <<content, variant, run, firstRun>>
glyphVars == <<gpc, pixel, brightness, brightness2, index, index2, glyph>>

(***************************************************************************)
(* Program constants (namespace ASCIIVideoConstants).                       *)
(***************************************************************************)
\* the ramp, dark to light, as character codes: 32 is the blank, 36 the dollar sign
ASCII_CHARS ==
    <<32,  46,  39,  96,  94,  34,  44,  58,  59,  73,
       108,  33, 105,  62,  60, 126,  43,  95,  45,  63,
        93,  91, 125, 123,  49,  41,  40, 124,  92,  47,
       116, 102, 106, 114, 120, 110, 117, 118,  99, 122,
        88,  89,  85,  74,  67,  76,  81,  48,  79,  90,
       109, 119, 113, 112, 100,  98, 107, 104,  97, 111,
        42,  35,  77,  87,  38,  56,  37,  66,  64,  36 >>

DEFAULT_ASCII_WIDTH == 80
MIN_ASCII_WIDTH == 20
MAX_ASCII_WIDTH == 300
ASCII_CHAR_WIDTH == 6
ASCII_CHAR_HEIGHT == 12
\* luminance weights, in thousandths
RED_WEIGHT == 299
GREEN_WEIGHT == 587
BLUE_WEIGHT == 114
\* every 30 frames a progress line is printed
PROGRESS_INTERVAL == 30

\* the converter's currentCharset, copied from ASCII_CHARS by the constructor
currentCharset == ASCII_CHARS

(***************************************************************************)
(* Bounds of the model.                                                     *)
(***************************************************************************)
\* most frames the source delivers before it is exhausted
MaxFrames == 31
\* source widths and heights enumerated exhaustively by SpecGrid
MaxGridDim == 9
\* brightness samples per unit interval in SpecGlyph
BrightnessSteps == 80

(***************************************************************************)
(* C++ arithmetic.                                                          *)
(***************************************************************************)
\* int / int: the quotient truncated toward zero
CDiv(a, b) ==
    IF (a >= 0) = (b > 0) THEN (IF a >= 0 THEN a \div b ELSE (-a) \div (-b))
    ELSE -(IF a >= 0 THEN a \div (-b) ELSE (-a) \div b)

IntMin(a, b) == IF b < a THEN b ELSE a
IntMax(a, b) == IF a < b THEN b ELSE a

\* static_cast<int>(n * 0.5) for an int n: the half, truncated toward zero
TruncHalf(n) == CDiv(n, 2)

(***************************************************************************)
(* std::atoi, as main uses it on argv[3]: leading white space is skipped,   *)
(* an optional sign is read, then digits up to the first character that is  *)
(* no digit; without any digit the result is 0.                             *)
(***************************************************************************)
Digits == <<"0", "1", "2", "3", "4", "5", "6", "7", "8", "9">>
IsDigit(c) == \E d \in 1..10 : Digits[d] = c
DigitValue(c) == (CHOOSE d \in 1..10 : Digits[d] = c) - 1
IsSpace(c) == c \in {" ", "\t"}

RECURSIVE SkipSpaces(_)
SkipSpaces(s) ==
    IF s # <<>> /\ IsSpace(Head(s)) THEN SkipSpaces(Tail(s)) ELSE s

RECURSIVE ParseDigits(_, _)
ParseDigits(s, acc) ==
    IF s # <<>> /\ IsDigit(Head(s))
    THEN ParseDigits(Tail(s), acc * 10 + DigitValue(Head(s)))
    ELSE acc

atoi(s) ==
    LET t == SkipSpaces(s)
        signed == t # <<>> /\ Head(t) \in {"+", "-"}
        body == IF signed THEN Tail(t) ELSE t
        n == ParseDigits(body, 0)
    IN IF signed /\ Head(t) = "-" THEN -n ELSE n

(***************************************************************************)
(* Grid sizing (convertToColorASCII, step 3).                               *)
(***************************************************************************)
\* a mutation of computeAsciiHeight: originalHeight / originalWidth divided first
computeAsciiHeight_DivFirst(aw, oh, ow) == TruncHalf(aw * CDiv(oh, ow))

\* static_cast<int>((asciiWidth * originalHeight / originalWidth) * 0.5)
computeAsciiHeight(aw, oh, ow) == TruncHalf(CDiv(aw * oh, ow))

\* cv::Size frameSize(asciiWidth * ASCII_CHAR_WIDTH, asciiHeight * ASCII_CHAR_HEIGHT)
computeFrameSize(aw, ah) == <<aw * ASCII_CHAR_WIDTH, ah * ASCII_CHAR_HEIGHT>>

(***************************************************************************)
(* double values.  A brightness is held in exact arithmetic, in units of    *)
(* 1/Unit, so that the luminance of an 8-bit pixel is an integer; the       *)
(* rounding of the floating-point operations is not modelled.  The values   *)
(* that are no numbers keep the comparison rules of IEEE 754: every         *)
(* comparison with NaN is false.                                            *)
(***************************************************************************)
Unit == 1000 * 255

Num(v) == [k |-> "num", v |-> v]
NaN == [k |-> "nan", v |-> 0]
PInf == [k |-> "pinf", v |-> 0]
NInf == [k |-> "ninf", v |-> 0]
Zero == Num(0)
One == Num(Unit)

\* a < b on doubles
DLess(a, b) ==
    IF a.k = "nan" \/ b.k = "nan" THEN FALSE
    ELSE IF a.k = "ninf" THEN b.k # "ninf"
    ELSE IF a.k = "pinf" THEN FALSE
    ELSE IF b.k = "pinf" THEN TRUE
    ELSE IF b.k = "ninf" THEN FALSE
    ELSE a.v < b.v

\* std::min(a, b) is (b < a) ? b : a and std::max(a, b) is (a < b) ? b : a
StdMin(a, b) == IF DLess(b, a) THEN b ELSE a
StdMax(a, b) == IF DLess(a, b) THEN b ELSE a

\* static_cast<int>(d * n) for a finite double d and a whole number n; the
\* conversion is only ever applied to a clamped, hence finite, brightness
ScaledToInt(d, n) == CDiv(d.v * n, Unit)

(***************************************************************************)
(* Glyph mapping (generateColorASCIIFrame and getASCIIChar).                *)
(***************************************************************************)
\* brightness = (RED_WEIGHT * pixel[2] + GREEN_WEIGHT * pixel[1]
\*               + BLUE_WEIGHT * pixel[0]) / 255.0, the pixel being BGR
luminance(p) == Num(RED_WEIGHT * p[3] + GREEN_WEIGHT * p[2] + BLUE_WEIGHT * p[1])

\* a mutation of clampBrightness: no clamping
clampBrightness_None(b) == b

\* brightness = std::max(0.0, std::min(1.0, brightness))
clampBrightness(b) == StdMax(Zero, StdMin(One, b))

\* a mutation of getASCIIIndex: scaled by the ramp's length, index left unclamped
getASCIIIndex_Length(b) == ScaledToInt(clampBrightness(b), Len(currentCharset))

\* the index computed by getASCIIChar
getASCIIIndex(b) ==
    LET last == Len(currentCharset) - 1
        raw == ScaledToInt(clampBrightness(b), last)
    IN IntMax(0, IntMin(last, raw))

\* currentCharset[index]: the character at a valid index; a read outside the
\* string is undefined and may yield any byte
charsAt(i) ==
    IF i \in 0..(Len(currentCharset) - 1) THEN {currentCharset[i + 1]} ELSE 0..255

\* the characters getASCIIChar may return for a brightness
getASCIIChar(b) == charsAt(getASCIIIndex(b))

(***************************************************************************)
(* The environment of a run.                                                *)
(***************************************************************************)
\* a mutation of codecList: avc1 moved ahead of mp4v
codecList_Avc1First == <<"avc1", "mp4v", "X264", "H264">>

\* codecList of convertToColorASCII, by fourcc
codecList == <<"mp4v", "avc1", "X264", "H264">>
Codecs == {codecList[i] : i \in 1..Len(codecList)}

\* third positional arguments tried: "19", "20", "300", "301", "150", "abc",
\* "50abc", "", "-20", " 42" and "1e2"
ArgSamples ==
    { <<"1", "9">>, <<"2", "0">>, <<"3", "0", "0">>, <<"3", "0", "1">>,
      <<"1", "5", "0">>, <<"a", "b", "c">>, <<"5", "0", "a", "b", "c">>,
      <<>>, <<"-", "2", "0">>, <<" ", "4", "2">>, <<"1", "e", "2">> }

\* most command-line words: start.sh runs ./miku miku.mp4 ascii.mp4 150 1.5
MaxArgc == 5

\* <<width, height>> a source may report
Geometries == { <<1920, 1080>>, <<480, 640>>, <<1920, 40>> }

\* frame counts a source may report (0: the backend does not know)
FrameCountSamples == {0, PROGRESS_INTERVAL}

NoFrame == [src |-> 0, w |-> 0, h |-> 0]

\* colours a frame may have, <<blue, green, red>>; a frame is taken to be of
\* one colour, so that its grid is one cell repeated
PixelSamples == << <<0, 0, 0>>, <<255, 255, 255>>, <<40, 120, 200>> >>

\* an input of MaxFrames frames
DefaultContent == [k \in 1..MaxFrames |-> PixelSamples[(k % Len(PixelSamples)) + 1]]

\* a mutation of mikuCodecList: the two candidates of src/miku.cpp exchanged
mikuCodecList_Avc1First == <<"avc1", "mp4v">>

\* src/miku.cpp: writer.open with mp4v, then, when that did not open, with avc1
mikuCodecList == <<"mp4v", "avc1">>

\* the codec candidates of the program that is running
activeCodecList == IF variant = "miku" THEN mikuCodecList ELSE codecList

\* src/miku.cpp writes its constants inline
charWidth == 6
charHeight == 12
mikuDefaultWidth == 80

\* src/miku.cpp, main: asciiWidth < 20 || asciiWidth > 300
mikuWidthInvalid(w) == w < 20 \/ w > 300

\* src/miku.cpp: cv::Size frameSize(asciiWidth * charWidth, asciiHeight * charHeight)
mikuFrameSize(aw, ah) == <<aw * charWidth, ah * charHeight>>

\* src/miku.cpp: (0.299 * pixel[2] + 0.587 * pixel[1] + 0.114 * pixel[0]) / 255.0
mikuLuminance(p) == Num(299 * p[3] + 587 * p[2] + 114 * p[1])

\* src/miku.cpp: the canvas of generateColorASCIIFrame(colorFrame, charWidth,
\* charHeight, fontSize)
mikuGenerateColorASCIIFrame(colorFrame) ==
    [src |-> colorFrame.src,
     w |-> colorFrame.cols * charWidth,
     h |-> colorFrame.rows * charHeight]

\* the brightness the running program computes for a pixel
pixelBrightness(p) == IF variant = "miku" THEN mikuLuminance(p) ELSE luminance(p)

\* the record of a finished run
NoRun ==
    [variant |-> "", cap |-> "none", result |-> "none", exitCode |-> -1,
     asciiWidth |-> 0, asciiHeight |-> 0, frameSize |-> <<0, 0>>,
     geometry |-> <<0, 0>>, totalFrames |-> 0, delivered |-> 0,
     tried |-> <<>>, usedCodec |-> "", written |-> <<>>, glyphs |-> <<>>,
     progress |-> <<>>]

thisRun ==
    [variant |-> variant, cap |-> cap, result |-> convertResult,
     exitCode |-> exitCode, asciiWidth |-> asciiWidth, asciiHeight |-> asciiHeight,
     frameSize |-> frameSize, geometry |-> <<originalWidth, originalHeight>>,
     totalFrames |-> totalFrames, delivered |-> delivered, tried |-> tried,
     usedCodec |-> usedCodec, written |-> written, glyphs |-> glyphs,
     progress |-> progress]

\* The second run reads the input the first run read: the file opens again
\* iff it opened before, reports the metadata it reported before, and, when
\* the first run read it to its end, delivers as many frames as before.
sameOpen(ok) ==
    run = 1 \/ firstRun.cap = "none" \/ (ok <=> firstRun.cap # "failed")
sameMetadata(g, tf) ==
    \/ run = 1
    \/ firstRun.cap \in {"none", "failed"}
    \/ g = firstRun.geometry /\ tf = firstRun.totalFrames
sameFrames(more) ==
    run = 1 \/ firstRun.result # "true" \/ (more <=> delivered < firstRun.delivered)

(***************************************************************************)
(* Spec: the program.                                                       *)
(***************************************************************************)
Init ==
    /\ argc \in 1..MaxArgc
    /\ argv3 \in (IF argc >= 4 THEN ArgSamples ELSE {<<>>})
    /\ asciiWidth = 0
    /\ exitCode = -1
    /\ pc = "main"
    /\ available \in SUBSET Codecs
    /\ cap = "none"
    /\ totalFrames = 0
    /\ originalWidth = 0
    /\ originalHeight = 0
    /\ asciiHeight = 0
    /\ frameSize = <<0, 0>>
    /\ writer = "none"
    /\ writerOpened = FALSE
    /\ tried = <<>>
    /\ usedCodec = ""
    /\ delivered = 0
    /\ frame = 0
    /\ asciiFrame = NoFrame
    /\ written = <<>>
    /\ frameCount = 0
    /\ progress = <<>>
    /\ convertResult = "none"
    /\ gpc = "off"
    /\ pixel = <<0, 0, 0>>
    /\ brightness = Zero
    /\ brightness2 = Zero
    /\ index = 0
    /\ index2 = 0
    /\ glyph = 0
    /\ content = DefaultContent
    /\ glyphs = <<>>
    /\ variant = "part_000"
    /\ run = 1
    /\ firstRun = NoRun

\* main: if (argc < 3) { usage; return 1; }
CheckArgc ==
    /\ pc = "main"
    /\ IF argc < 3
       THEN /\ exitCode' = 1
            /\ pc' = "exit"
       ELSE /\ exitCode' = exitCode
            /\ pc' = "parse"
    /\ UNCHANGED <<argc, argv3, asciiWidth, available>>
    /\ UNCHANGED runVars
    /\ UNCHANGED glyphVars
    /\ UNCHANGED carryVars

\* main: asciiWidth = DEFAULT_ASCII_WIDTH; if (argc >= 4) asciiWidth = atoi(argv[3])
ParseWidth ==
    /\ pc = "parse"
    /\ asciiWidth' = IF argc >= 4 THEN atoi(argv3)
                     ELSE IF variant = "miku" THEN mikuDefaultWidth
                     ELSE DEFAULT_ASCII_WIDTH
    /\ pc' = "validate"
    /\ UNCHANGED <<argc, argv3, exitCode, available>>
    /\ UNCHANGED runVars
    /\ UNCHANGED glyphVars
    /\ UNCHANGED carryVars

\* a mutation of widthInvalid: the bounds themselves rejected
widthInvalid_Strict(w) == w <= MIN_ASCII_WIDTH \/ w >= MAX_ASCII_WIDTH

\* asciiWidth < MIN_ASCII_WIDTH || asciiWidth > MAX_ASCII_WIDTH
widthInvalid(w) == w < MIN_ASCII_WIDTH \/ w > MAX_ASCII_WIDTH

\* main: the range check; on success the converter is constructed
\* (frameCount(0)) and convertToColorASCII is entered
ValidateWidth ==
    /\ pc = "validate"
    /\ IF (IF variant = "miku" THEN mikuWidthInvalid(asciiWidth)
                             ELSE widthInvalid(asciiWidth))
       THEN /\ exitCode' = 1
            /\ pc' = "exit"
            /\ frameCount' = frameCount
       ELSE /\ exitCode' = exitCode
            /\ pc' = "open"
            /\ frameCount' = 0
    /\ UNCHANGED <<argc, argv3, asciiWidth, available>>
    /\ UNCHANGED <<cap, totalFrames, originalWidth, originalHeight, asciiHeight,
                   frameSize, writer, writerOpened, tried, usedCodec, delivered,
                   frame, asciiFrame, written, progress, convertResult>>
    /\ UNCHANGED glyphVars
    /\ UNCHANGED carryVars
    /\ UNCHANGED glyphs

\* convertToColorASCII step 1, the input does not open: return false
OpenSourceFails ==
    /\ pc = "open"
    /\ sameOpen(FALSE)
    /\ cap' = "failed"
    /\ convertResult' = "false"
    /\ pc' = "report"
    /\ UNCHANGED mainVars
    /\ UNCHANGED <<available, totalFrames, originalWidth, originalHeight,
                   asciiHeight, frameSize, writer, writerOpened, tried, usedCodec,
                   delivered, frame, asciiFrame, written, frameCount, progress>>
    /\ UNCHANGED glyphVars
    /\ UNCHANGED carryVars
    /\ UNCHANGED glyphs

\* convertToColorASCII steps 1 and 2: the input opens and reports its metadata
OpenSource ==
    /\ pc = "open"
    /\ sameOpen(TRUE)
    /\ cap' = "open"
    /\ \E g \in Geometries, tf \in FrameCountSamples :
          /\ sameMetadata(g, tf)
          /\ originalWidth' = g[1]
          /\ originalHeight' = g[2]
          /\ totalFrames' = tf
    /\ pc' = "grid"
    /\ UNCHANGED mainVars
    /\ UNCHANGED <<available, asciiHeight, frameSize, writer, writerOpened, tried,
                   usedCodec, delivered, frame, asciiFrame, written, frameCount,
                   progress, convertResult>>
    /\ UNCHANGED glyphVars
    /\ UNCHANGED carryVars
    /\ UNCHANGED glyphs

\* convertToColorASCII step 3, and the declarations that open step 4
ComputeGrid ==
    /\ pc = "grid"
    /\ asciiHeight' = computeAsciiHeight(asciiWidth, originalHeight, originalWidth)
    /\ frameSize' = IF variant = "miku" THEN mikuFrameSize(asciiWidth, asciiHeight')
                    ELSE computeFrameSize(asciiWidth, asciiHeight')
    /\ writer' = "closed"
    /\ writerOpened' = FALSE
    /\ pc' = "codec"
    /\ UNCHANGED mainVars
    /\ UNCHANGED <<available, cap, totalFrames, originalWidth, originalHeight,
                   tried, usedCodec, delivered, frame, asciiFrame, written,
                   frameCount, progress, convertResult>>
    /\ UNCHANGED glyphVars
    /\ UNCHANGED carryVars
    /\ UNCHANGED glyphs

\* the candidate the for loop over codecList hands to writer.open next
nextCodec == activeCodecList[Len(tried) + 1]

\* convertToColorASCII step 4, one iteration of the loop over codecList:
\* writer.open with the next candidate; break when it opened
TryCodec ==
    /\ pc = "codec"
    /\ Len(tried) < Len(activeCodecList)
    /\ tried' = Append(tried, nextCodec)
    /\ IF nextCodec \in available
       THEN /\ writer' = "open"
            /\ writerOpened' = TRUE
            /\ usedCodec' = nextCodec
            /\ pc' = "sink"
       ELSE /\ UNCHANGED <<writer, writerOpened, usedCodec>>
            /\ pc' = IF Len(tried') = Len(activeCodecList) THEN "sink" ELSE "codec"
    /\ UNCHANGED mainVars
    /\ UNCHANGED <<available, cap, totalFrames, originalWidth, originalHeight,
                   asciiHeight, frameSize, delivered, frame, asciiFrame, written,
                   frameCount, progress, convertResult>>
    /\ UNCHANGED glyphVars
    /\ UNCHANGED carryVars
    /\ UNCHANGED glyphs

\* a mutation of SinkFailed: the source is not released
SinkFailed_NoRelease ==
    /\ pc = "sink"
    /\ ~writerOpened
    /\ convertResult' = "false"
    /\ pc' = "report"
    /\ UNCHANGED mainVars
    /\ UNCHANGED <<available, cap, totalFrames, originalWidth, originalHeight,
                   asciiHeight, frameSize, writer, writerOpened, tried, usedCodec,
                   delivered, frame, asciiFrame, written, frameCount, progress>>
    /\ UNCHANGED glyphVars
    /\ UNCHANGED carryVars
    /\ UNCHANGED glyphs

\* a mutation of SinkFailed: the return is missing and the loop is entered
SinkFailed_FallThrough ==
    /\ pc = "sink"
    /\ ~writerOpened
    /\ cap' = "released"
    /\ pc' = "read"
    /\ UNCHANGED mainVars
    /\ UNCHANGED <<available, totalFrames, originalWidth, originalHeight,
                   asciiHeight, frameSize, writer, writerOpened, tried, usedCodec,
                   delivered, frame, asciiFrame, written, frameCount, progress,
                   convertResult>>
    /\ UNCHANGED glyphVars
    /\ UNCHANGED carryVars
    /\ UNCHANGED glyphs

\* if (!writerOpened) { cap.release(); return false; }
SinkFailed ==
    /\ pc = "sink"
    /\ ~writerOpened
    /\ cap' = "released"
    /\ convertResult' = "false"
    /\ pc' = "report"
    /\ UNCHANGED mainVars
    /\ UNCHANGED <<available, totalFrames, originalWidth, originalHeight,
                   asciiHeight, frameSize, writer, writerOpened, tried, usedCodec,
                   delivered, frame, asciiFrame, written, frameCount, progress>>
    /\ UNCHANGED glyphVars
    /\ UNCHANGED carryVars
    /\ UNCHANGED glyphs

\* a mutation of StartStreaming: the frame counter is left as it was
StartStreaming_NoReset ==
    /\ pc = "sink"
    /\ writerOpened
    /\ frameCount' = frameCount
    /\ frame' = 0
    /\ pc' = "read"
    /\ UNCHANGED mainVars
    /\ UNCHANGED <<available, cap, totalFrames, originalWidth, originalHeight,
                   asciiHeight, frameSize, writer, writerOpened, tried, usedCodec,
                   delivered, asciiFrame, written, progress, convertResult>>
    /\ UNCHANGED glyphVars
    /\ UNCHANGED carryVars
    /\ UNCHANGED glyphs

\* convertToColorASCII step 5, before the loop: frameCount = 0
StartStreaming ==
    /\ pc = "sink"
    /\ writerOpened
    /\ frameCount' = 0
    /\ frame' = 0
    /\ pc' = "read"
    /\ UNCHANGED mainVars
    /\ UNCHANGED <<available, cap, totalFrames, originalWidth, originalHeight,
                   asciiHeight, frameSize, writer, writerOpened, tried, usedCodec,
                   delivered, asciiFrame, written, progress, convertResult>>
    /\ UNCHANGED glyphVars
    /\ UNCHANGED carryVars
    /\ UNCHANGED glyphs

\* a mutation of ReadFrame: a frame is grabbed and dropped before the read
ReadFrame_SkipOne ==
    /\ pc = "read"
    /\ delivered + 1 < Len(content)
    /\ delivered' = delivered + 2
    /\ frame' = delivered + 2
    /\ pc' = "transform"
    /\ UNCHANGED mainVars
    /\ UNCHANGED <<available, cap, totalFrames, originalWidth, originalHeight,
                   asciiHeight, frameSize, writer, writerOpened, tried, usedCodec,
                   asciiFrame, written, frameCount, progress, convertResult>>
    /\ UNCHANGED glyphVars
    /\ UNCHANGED carryVars
    /\ UNCHANGED glyphs

\* cap >> frame, the source has another frame
ReadFrame ==
    /\ pc = "read"
    /\ delivered < Len(content)
    /\ sameFrames(TRUE)
    /\ delivered' = delivered + 1
    /\ frame' = delivered + 1
    /\ pc' = "transform"
    /\ UNCHANGED mainVars
    /\ UNCHANGED <<available, cap, totalFrames, originalWidth, originalHeight,
                   asciiHeight, frameSize, writer, writerOpened, tried, usedCodec,
                   asciiFrame, written, frameCount, progress, convertResult>>
    /\ UNCHANGED glyphVars
    /\ UNCHANGED carryVars
    /\ UNCHANGED glyphs

\* a mutation of ReadEmpty: continue in place of break
ReadEmpty_Continue ==
    /\ pc = "read"
    /\ frame' = 0
    /\ pc' = "read"
    /\ UNCHANGED mainVars
    /\ UNCHANGED <<available, cap, totalFrames, originalWidth, originalHeight,
                   asciiHeight, frameSize, writer, writerOpened, tried, usedCodec,
                   delivered, asciiFrame, written, frameCount, progress,
                   convertResult>>
    /\ UNCHANGED glyphVars
    /\ UNCHANGED carryVars
    /\ UNCHANGED glyphs

\* cap >> frame, the source is exhausted: if (frame.empty()) break
ReadEmpty ==
    /\ pc = "read"
    /\ sameFrames(FALSE)
    /\ frame' = 0
    /\ pc' = "finish"
    /\ UNCHANGED mainVars
    /\ UNCHANGED <<available, cap, totalFrames, originalWidth, originalHeight,
                   asciiHeight, frameSize, writer, writerOpened, tried, usedCodec,
                   delivered, asciiFrame, written, frameCount, progress,
                   convertResult>>
    /\ UNCHANGED glyphVars
    /\ UNCHANGED carryVars
    /\ UNCHANGED glyphs

\* cv::resize(frame, resized, cv::Size(asciiWidth, asciiHeight), ...)
resizeFrame(f, w, h) == [src |-> f, cols |-> w, rows |-> h]

\* a mutation of generateColorASCIIFrame: rows and columns of the canvas swapped
generateColorASCIIFrame_Swapped(colorFrame) ==
    [src |-> colorFrame.src,
     w |-> colorFrame.rows * ASCII_CHAR_HEIGHT,
     h |-> colorFrame.cols * ASCII_CHAR_WIDTH]

\* the canvas generateColorASCIIFrame creates and returns for colorFrame
generateColorASCIIFrame(colorFrame) ==
    [src |-> colorFrame.src,
     w |-> colorFrame.cols * ASCII_CHAR_WIDTH,
     h |-> colorFrame.rows * ASCII_CHAR_HEIGHT]

\* generateColorASCIIFrame, the loops over the grid: the ramp index of every
\* cell, here of the one cell that stands for a grid of one colour; a grid
\* without rows or columns has no cell
frameGlyphs(px, cols, rows) ==
    IF cols > 0 /\ rows > 0 THEN <<getASCIIIndex(pixelBrightness(px))>> ELSE <<>>

\* loop body 5.1 and 5.2: resize, then generateColorASCIIFrame(resized)
TransformFrame ==
    /\ pc = "transform"
    /\ LET resized == resizeFrame(frame, asciiWidth, asciiHeight)
       IN  asciiFrame' = IF variant = "miku" THEN mikuGenerateColorASCIIFrame(resized)
                         ELSE generateColorASCIIFrame(resized)
    /\ glyphs' = glyphs \o frameGlyphs(content[frame], asciiWidth, asciiHeight)
    /\ pc' = "write"
    /\ UNCHANGED mainVars
    /\ UNCHANGED <<available, cap, totalFrames, originalWidth, originalHeight,
                   asciiHeight, frameSize, writer, writerOpened, tried, usedCodec,
                   delivered, frame, written, frameCount, progress, convertResult>>
    /\ UNCHANGED glyphVars
    /\ UNCHANGED carryVars

\* a mutation of progressDue: the counter tested as it was before frameCount++
progressDue_BeforeCount(fc) == (fc - 1) % PROGRESS_INTERVAL = 0

\* if (frameCount % 30 == 0)
progressDue(fc) == fc % PROGRESS_INTERVAL = 0

\* double progress = (frameCount * 100.0) / totalFrames, kept as the exact
\* fraction num/den; a division by 0.0 gives an infinity, 0.0/0.0 a NaN
progressPercent(fc, tf) ==
    IF tf # 0 THEN [k |-> "num", num |-> fc * 100, den |-> tf]
    ELSE [k |-> (IF fc = 0 THEN "nan" ELSE "pinf"), num |-> fc * 100, den |-> tf]

\* the progress line printed: frameCount, totalFrames and the percentage,
\* together with the number of frames written when it is printed
progressLine(fc, tf, nwritten) ==
    [frames |-> fc, total |-> tf, percent |-> progressPercent(fc, tf),
     written |-> nwritten]

\* a mutation of WriteFrame: the frame is counted but not written
WriteFrame_NoWrite ==
    /\ pc = "write"
    /\ frameCount' = frameCount + 1
    /\ asciiFrame' = NoFrame
    /\ pc' = "read"
    /\ UNCHANGED mainVars
    /\ UNCHANGED <<available, cap, totalFrames, originalWidth, originalHeight,
                   asciiHeight, frameSize, writer, writerOpened, tried, usedCodec,
                   delivered, frame, written, progress, convertResult>>
    /\ UNCHANGED glyphVars
    /\ UNCHANGED carryVars
    /\ UNCHANGED glyphs

\* loop body 5.3 and 5.4: writer.write(asciiFrame); frameCount++; a progress
\* line when frameCount % 30 == 0; asciiFrame ends with the iteration
WriteFrame ==
    /\ pc = "write"
    /\ written' = Append(written, asciiFrame)
    /\ frameCount' = frameCount + 1
    /\ progress' = IF progressDue(frameCount')
                   THEN Append(progress, progressLine(frameCount', totalFrames, Len(written')))
                   ELSE progress
    /\ asciiFrame' = NoFrame
    /\ pc' = "read"
    /\ UNCHANGED mainVars
    /\ UNCHANGED <<available, cap, totalFrames, originalWidth, originalHeight,
                   asciiHeight, frameSize, writer, writerOpened, tried, usedCodec,
                   delivered, frame, convertResult>>
    /\ UNCHANGED glyphVars
    /\ UNCHANGED carryVars
    /\ UNCHANGED glyphs

\* a mutation of FinishRun: the writer is not released
FinishRun_KeepWriter ==
    /\ pc = "finish"
    /\ cap' = "released"
    /\ convertResult' = "true"
    /\ pc' = "report"
    /\ UNCHANGED mainVars
    /\ UNCHANGED <<available, totalFrames, originalWidth, originalHeight,
                   asciiHeight, frameSize, writer, writerOpened, tried, usedCodec,
                   delivered, frame, asciiFrame, written, frameCount, progress>>
    /\ UNCHANGED glyphVars
    /\ UNCHANGED carryVars
    /\ UNCHANGED glyphs

\* convertToColorASCII step 6: cap.release(); writer.release(); return true
FinishRun ==
    /\ pc = "finish"
    /\ cap' = "released"
    /\ writer' = "released"
    /\ convertResult' = "true"
    /\ pc' = "report"
    /\ UNCHANGED mainVars
    /\ UNCHANGED <<available, totalFrames, originalWidth, originalHeight,
                   asciiHeight, frameSize, writerOpened, tried, usedCodec,
                   delivered, frame, asciiFrame, written, frameCount, progress>>
    /\ UNCHANGED glyphVars
    /\ UNCHANGED carryVars
    /\ UNCHANGED glyphs

\* a mutation of MainReturn: a failed conversion falls through to return 0
MainReturn_AlwaysZero ==
    /\ pc = "report"
    /\ exitCode' = 0
    /\ pc' = "exit"
    /\ UNCHANGED <<argc, argv3, asciiWidth, available>>
    /\ UNCHANGED runVars
    /\ UNCHANGED glyphVars
    /\ UNCHANGED carryVars

\* main: return 0 when convertToColorASCII returned true, return 1 otherwise
MainReturn ==
    /\ pc = "report"
    /\ exitCode' = IF convertResult = "true" THEN 0 ELSE 1
    /\ pc' = "exit"
    /\ UNCHANGED <<argc, argv3, asciiWidth, available>>
    /\ UNCHANGED runVars
    /\ UNCHANGED glyphVars
    /\ UNCHANGED carryVars

Next ==
    \/ CheckArgc
    \/ ParseWidth
    \/ ValidateWidth
    \/ OpenSourceFails
    \/ OpenSource
    \/ ComputeGrid
    \/ TryCodec
    \/ SinkFailed
    \/ StartStreaming
    \/ ReadFrame
    \/ ReadEmpty
    \/ TransformFrame
    \/ WriteFrame
    \/ FinishRun
    \/ MainReturn

Spec == Init /\ [][Next]_vars

\* the program is one sequential thread that runs to its end: a step that
\* can be taken is eventually taken
SpecLive == Init /\ [][Next]_vars /\ WF_vars(Next)

(***************************************************************************)
(* SpecRerun: convertToColorASCII called twice on one converter with the    *)
(* same arguments. The locals of the call start afresh; the member          *)
(* frameCount is what the first call left.                                  *)
(***************************************************************************)
PairFrames == 3

RerunWidths == {MIN_ASCII_WIDTH, DEFAULT_ASCII_WIDTH, 150}

\* inputs of PairFrames frames
ContentSamples ==
    { [k \in 1..PairFrames |-> PixelSamples[((k + s) % Len(PixelSamples)) + 1]] :
        s \in 0..(Len(PixelSamples) - 1) }

\* the converter is constructed (frameCount(0)) and is about to be called
InitRerun ==
    /\ argc = 4
    /\ asciiWidth \in RerunWidths
    /\ argv3 = <<>>
    /\ exitCode = -1
    /\ pc = "open"
    /\ available \in SUBSET Codecs
    /\ cap = "none"
    /\ totalFrames = 0
    /\ originalWidth = 0
    /\ originalHeight = 0
    /\ asciiHeight = 0
    /\ frameSize = <<0, 0>>
    /\ writer = "none"
    /\ writerOpened = FALSE
    /\ tried = <<>>
    /\ usedCodec = ""
    /\ delivered = 0
    /\ frame = 0
    /\ asciiFrame = NoFrame
    /\ written = <<>>
    /\ frameCount = 0
    /\ progress = <<>>
    /\ convertResult = "none"
    /\ gpc = "off"
    /\ pixel = <<0, 0, 0>>
    /\ brightness = Zero
    /\ brightness2 = Zero
    /\ index = 0
    /\ index2 = 0
    /\ glyph = 0
    /\ content \in ContentSamples
    /\ glyphs = <<>>
    /\ variant = "part_000"
    /\ run = 1
    /\ firstRun = NoRun

\* convertToColorASCII entered again: cap, writer, frame and the other
\* locals are new objects, the output file is created anew, frameCount is
\* the member the first call counted up
CallAgain ==
    /\ pc = "report"
    /\ run = 1
    /\ firstRun' = thisRun
    /\ run' = 2
    /\ pc' = "open"
    /\ cap' = "none"
    /\ totalFrames' = 0
    /\ originalWidth' = 0
    /\ originalHeight' = 0
    /\ asciiHeight' = 0
    /\ frameSize' = <<0, 0>>
    /\ writer' = "none"
    /\ writerOpened' = FALSE
    /\ tried' = <<>>
    /\ usedCodec' = ""
    /\ delivered' = 0
    /\ frame' = 0
    /\ asciiFrame' = NoFrame
    /\ written' = <<>>
    /\ glyphs' = <<>>
    /\ progress' = <<>>
    /\ convertResult' = "none"
    /\ UNCHANGED <<frameCount, available, content, variant>>
    /\ UNCHANGED mainVars
    /\ UNCHANGED glyphVars

NextRerun ==
    \/ OpenSourceFails
    \/ OpenSource
    \/ ComputeGrid
    \/ TryCodec
    \/ SinkFailed
    \/ StartStreaming
    \/ ReadFrame
    \/ ReadEmpty
    \/ TransformFrame
    \/ WriteFrame
    \/ FinishRun
    \/ CallAgain
    \/ MainReturn

SpecRerun == InitRerun /\ [][NextRerun]_vars

(***************************************************************************)
(* SpecVariants: the program of src/miku.cpp and the program of             *)
(* src/unnamed/part_000 run one after the other on the same command line,   *)
(* input and codecs.                                                        *)
(***************************************************************************)
Variants == {"miku", "part_000"}

InitVariants ==
    /\ argc \in 1..MaxArgc
    /\ argv3 \in (IF argc >= 4 THEN ArgSamples ELSE {<<>>})
    /\ asciiWidth = 0
    /\ exitCode = -1
    /\ pc = "main"
    /\ available \in SUBSET Codecs
    /\ cap = "none"
    /\ totalFrames = 0
    /\ originalWidth = 0
    /\ originalHeight = 0
    /\ asciiHeight = 0
    /\ frameSize = <<0, 0>>
    /\ writer = "none"
    /\ writerOpened = FALSE
    /\ tried = <<>>
    /\ usedCodec = ""
    /\ delivered = 0
    /\ frame = 0
    /\ asciiFrame = NoFrame
    /\ written = <<>>
    /\ frameCount = 0
    /\ progress = <<>>
    /\ convertResult = "none"
    /\ gpc = "off"
    /\ pixel = <<0, 0, 0>>
    /\ brightness = Zero
    /\ brightness2 = Zero
    /\ index = 0
    /\ index2 = 0
    /\ glyph = 0
    /\ content \in ContentSamples
    /\ glyphs = <<>>
    /\ variant \in Variants
    /\ run = 1
    /\ firstRun = NoRun

\* the other program is started with the same command line
RunOtherVariant ==
    /\ pc = "exit"
    /\ run = 1
    /\ firstRun' = thisRun
    /\ run' = 2
    /\ variant' = IF variant = "miku" THEN "part_000" ELSE "miku"
    /\ asciiWidth' = 0
    /\ exitCode' = -1
    /\ pc' = "main"
    /\ cap' = "none"
    /\ totalFrames' = 0
    /\ originalWidth' = 0
    /\ originalHeight' = 0
    /\ asciiHeight' = 0
    /\ frameSize' = <<0, 0>>
    /\ writer' = "none"
    /\ writerOpened' = FALSE
    /\ tried' = <<>>
    /\ usedCodec' = ""
    /\ delivered' = 0
    /\ frame' = 0
    /\ asciiFrame' = NoFrame
    /\ written' = <<>>
    /\ glyphs' = <<>>
    /\ frameCount' = 0
    /\ progress' = <<>>
    /\ convertResult' = "none"
    /\ UNCHANGED <<argc, argv3, available, content>>
    /\ UNCHANGED glyphVars

NextVariants ==
    \/ Next
    \/ RunOtherVariant

SpecVariants == InitVariants /\ [][NextVariants]_vars

(***************************************************************************)
(* SpecGrid: step 3 of convertToColorASCII from every state in which an     *)
(* accepted width meets an opened source.                                   *)
(***************************************************************************)
\* the decimal spelling of a natural number, as argv[3] carries it
RECURSIVE itoa(_)
itoa(n) == IF n < 10 THEN <<Digits[n + 1]>> ELSE Append(itoa(n \div 10), Digits[(n % 10) + 1])

GridWidths == (1..MaxGridDim) \cup {480, 1920}
GridHeights == (0..MaxGridDim) \cup {40, 640, 1080}

InitGrid ==
    /\ argc = 4
    /\ asciiWidth \in MIN_ASCII_WIDTH..MAX_ASCII_WIDTH
    /\ argv3 = itoa(asciiWidth)
    /\ exitCode = -1
    /\ pc = "grid"
    /\ available = Codecs
    /\ cap = "open"
    /\ totalFrames = 0
    /\ originalWidth \in GridWidths
    /\ originalHeight \in GridHeights
    /\ asciiHeight = 0
    /\ frameSize = <<0, 0>>
    /\ writer = "none"
    /\ writerOpened = FALSE
    /\ tried = <<>>
    /\ usedCodec = ""
    /\ delivered = 0
    /\ frame = 0
    /\ asciiFrame = NoFrame
    /\ written = <<>>
    /\ frameCount = 0
    /\ progress = <<>>
    /\ convertResult = "none"
    /\ gpc = "off"
    /\ pixel = <<0, 0, 0>>
    /\ brightness = Zero
    /\ brightness2 = Zero
    /\ index = 0
    /\ index2 = 0
    /\ glyph = 0
    /\ content = DefaultContent
    /\ glyphs = <<>>
    /\ variant = "part_000"
    /\ run = 1
    /\ firstRun = NoRun

NextGrid == ComputeGrid

SpecGrid == InitGrid /\ [][NextGrid]_vars

(***************************************************************************)
(* SpecGlyph: the per-cell work of generateColorASCIIFrame on the first     *)
(* frame of a run: the luminance of a pixel, then getASCIIChar.  It starts  *)
(* either from a sampled pixel or, for getASCIIChar alone, from a pair of   *)
(* sampled brightness values, the values outside [0,1] and the values that  *)
(* are no numbers included.                                                 *)
(***************************************************************************)
ChannelSamples == {0, 1, 64, 127, 128, 254, 255}

BrightnessSamples ==
    { Num(k * (Unit \div BrightnessSteps)) : k \in (-BrightnessSteps)..(2 * BrightnessSteps) }
        \cup {Zero, One, NaN, PInf, NInf}

InitGlyph ==
    /\ argc = 3
    /\ argv3 = <<>>
    /\ asciiWidth = DEFAULT_ASCII_WIDTH
    /\ exitCode = -1
    /\ pc = "transform"
    /\ available = Codecs
    /\ cap = "open"
    /\ totalFrames = PROGRESS_INTERVAL
    /\ originalWidth = 1920
    /\ originalHeight = 1080
    /\ asciiHeight = computeAsciiHeight(asciiWidth, originalHeight, originalWidth)
    /\ frameSize = computeFrameSize(asciiWidth, asciiHeight)
    /\ writer = "open"
    /\ writerOpened = TRUE
    /\ tried = <<codecList[1]>>
    /\ usedCodec = codecList[1]
    /\ delivered = 1
    /\ frame = 1
    /\ asciiFrame = NoFrame
    /\ written = <<>>
    /\ frameCount = 0
    /\ progress = <<>>
    /\ convertResult = "none"
    /\ index = 0
    /\ index2 = 0
    /\ glyph = 0
    /\ content = DefaultContent
    /\ glyphs = <<>>
    /\ variant = "part_000"
    /\ run = 1
    /\ firstRun = NoRun
    /\ \/ /\ gpc = "pixel"
          /\ pixel \in ChannelSamples \X ChannelSamples \X ChannelSamples
          /\ brightness = Zero
          /\ brightness2 = Zero
       \/ /\ gpc = "map"
          /\ pixel = <<0, 0, 0>>
          /\ brightness \in BrightnessSamples
          /\ brightness2 \in BrightnessSamples

\* generateColorASCIIFrame: the brightness of colorFrame.at<cv::Vec3b>(y, x)
ComputeBrightness ==
    /\ gpc = "pixel"
    /\ brightness' = luminance(pixel)
    /\ brightness2' = luminance(pixel)
    /\ gpc' = "map"
    /\ UNCHANGED <<pixel, index, index2, glyph>>
    /\ UNCHANGED <<argc, argv3, asciiWidth, exitCode, pc, available>>
    /\ UNCHANGED runVars
    /\ UNCHANGED carryVars

\* generateColorASCIIFrame: asciiChar = getASCIIChar(brightness)
SelectGlyph ==
    /\ gpc = "map"
    /\ index' = getASCIIIndex(brightness)
    /\ index2' = getASCIIIndex(brightness2)
    /\ glyph' \in getASCIIChar(brightness)
    /\ gpc' = "done"
    /\ UNCHANGED <<pixel, brightness, brightness2>>
    /\ UNCHANGED <<argc, argv3, asciiWidth, exitCode, pc, available>>
    /\ UNCHANGED runVars
    /\ UNCHANGED carryVars

NextGlyph ==
    \/ ComputeBrightness
    \/ SelectGlyph

SpecGlyph == InitGlyph /\ [][NextGlyph]_vars

(***************************************************************************)
(* Properties.                                                              *)
(***************************************************************************)
\* the codec candidates in the order the specification gives them
CandidateOrder == <<"mp4v", "avc1", "X264", "H264">>

\* the run returned false after the source had opened: no codec opened the sink
EncodeFailed == convertResult = "false" /\ cap # "failed"

\* main returned before the converter was ever entered
ArgRejected == pc = "exit" /\ cap = "none"

\* a decimal number: leading blanks allowed, an optional sign, then digits
\* and nothing else
IsNumber(s) ==
    LET t == SkipSpaces(s)
        body == IF t # <<>> /\ Head(t) \in {"+", "-"} THEN Tail(t) ELSE t
    IN body # <<>> /\ \A i \in 1..Len(body) : IsDigit(body[i])

\* C1: once the grid is computed from an accepted width and a source of
\* positive width and non-negative height, asciiHeight is the floor of
\* asciiWidth * originalHeight / originalWidth * 0.5 taken in exact arithmetic
\* (the one integer h with 2*W*h <= aw*H < 2*W*(h+1)), and 1920x1080 at
\* width 150 gives 42.
C1_GridHeightIsExactFloor ==
    (pc = "codec" /\ originalWidth > 0 /\ originalHeight >= 0
        /\ asciiWidth >= 20 /\ asciiWidth <= 300)
    => /\ 2 * originalWidth * asciiHeight <= asciiWidth * originalHeight
       /\ asciiWidth * originalHeight < 2 * originalWidth * (asciiHeight + 1)
       /\ (originalWidth = 1920 /\ originalHeight = 1080 /\ asciiWidth = 150)
              => asciiHeight = 42

C1_Witness ==
    /\ pc = "codec"
    /\ originalWidth = 1920 /\ originalHeight = 1080 /\ asciiWidth = 150
    /\ asciiHeight = 42

\* C2: for two brightness values b1 <= b2 in [0,1] the ramp index selected
\* for b1 is at most the one selected for b2; brightness 0 selects index 0 and
\* brightness 1 selects the last index of the ramp.
C2_GlyphIndexMonotone ==
    gpc = "done"
    => /\ (/\ brightness.k = "num" /\ brightness2.k = "num"
           /\ 0 <= brightness.v /\ brightness.v <= brightness2.v
           /\ brightness2.v <= Unit)
              => index <= index2
       /\ brightness = Zero => index = 0
       /\ brightness = One => index = Len(ASCII_CHARS) - 1

C2_Witness ==
    /\ gpc = "done"
    /\ brightness.k = "num" /\ 0 < brightness.v /\ brightness.v < Unit
    /\ brightness2 = One
    /\ 0 < index /\ index < index2
    /\ index2 = Len(ASCII_CHARS) - 1

\* C3: whatever brightness reaches getASCIIChar (a pixel's luminance, a value
\* below 0 or above 1, an infinity or a NaN), its clamped value is a number in
\* [0,1] and the index selected lies within the ramp: 0 for a value below 0,
\* the last index for a value above 1; the character returned is the ramp's
\* character at that index.
C3_ClampKeepsIndexInRamp ==
    /\ gpc \in {"map", "done"}
          => /\ clampBrightness(brightness).k = "num"
             /\ 0 <= clampBrightness(brightness).v
             /\ clampBrightness(brightness).v <= Unit
    /\ gpc = "done"
          => /\ index \in 0..(Len(ASCII_CHARS) - 1)
             /\ index2 \in 0..(Len(ASCII_CHARS) - 1)
             /\ DLess(brightness, Zero) => index = 0
             /\ DLess(One, brightness) => index = Len(ASCII_CHARS) - 1
             /\ glyph = ASCII_CHARS[index + 1]

C3_Witness ==
    /\ gpc = "done"
    /\ DLess(brightness, Zero) /\ index = 0
    /\ DLess(One, brightness2) /\ index2 = Len(ASCII_CHARS) - 1

\* C4: the codecs handed to writer.open are a prefix of mp4v, avc1, X264,
\* H264 (fixed order, none twice); when the writer opened, the codec used is
\* the last one tried, it is the first of the order that can open, and nothing
\* is tried after it; frames are only read and written with the writer opened;
\* and a run whose source opened and for which some candidate can open ends
\* with success, never with an error.
C4_CodecFallbackOrder ==
    /\ Len(tried) <= Len(CandidateOrder)
    /\ \A i \in 1..Len(tried) : tried[i] = CandidateOrder[i]
    /\ writerOpened
          => /\ tried # <<>>
             /\ usedCodec = tried[Len(tried)]
             /\ usedCodec \in available
             /\ \A i \in 1..(Len(tried) - 1) : tried[i] \notin available
    /\ ~writerOpened => usedCodec = "" /\ \A i \in 1..Len(tried) : tried[i] \notin available
    /\ pc \in {"read", "transform", "write", "finish"} => writerOpened /\ writer = "open"
    /\ (pc = "exit" /\ cap = "released" /\ available # {})
          => exitCode = 0 /\ convertResult = "true" /\ writerOpened

C4_Witness ==
    /\ pc = "exit" /\ exitCode = 0
    /\ "mp4v" \notin available /\ "avc1" \notin available
    /\ tried = <<"mp4v", "avc1", "X264">>
    /\ usedCodec = "X264"
    /\ Len(written) > 0

\* C5: a run fails for want of a codec only after all four candidates were
\* tried and none opened, with no frame read, none written and the source
\* released, and main then exits with 1; and when no candidate can open, a run
\* whose source opened does end that way.
C5_AllCodecsFail ==
    /\ EncodeFailed
          => /\ tried = CandidateOrder
             /\ ~writerOpened /\ writer = "closed"
             /\ delivered = 0 /\ frame = 0
             /\ written = <<>> /\ frameCount = 0
             /\ cap = "released"
             /\ pc = "exit" => exitCode = 1
    /\ (pc = "exit" /\ cap \notin {"none", "failed"} /\ available = {})
          => EncodeFailed /\ exitCode = 1

C5_Witness ==
    /\ pc = "exit" /\ exitCode = 1
    /\ EncodeFailed
    /\ tried = CandidateOrder
    /\ cap = "released"

\* C6: throughout the streaming loop the number of frames written equals
\* frameCount, which is 0 when the loop starts and grows by one with every frame
\* written; the k-th frame written comes from the k-th frame read; and a
\* successful run has written exactly the frames the source delivered before
\* it was exhausted.
C6_FramesWrittenEqualFrameCount ==
    /\ Len(written) = frameCount
    /\ \A k \in 1..Len(written) : written[k].src = k
    /\ pc \in {"read", "finish"} => delivered = frameCount
    /\ pc \in {"transform", "write"} => delivered = frameCount + 1
    /\ convertResult = "true" => Len(written) = delivered /\ frameCount = delivered

C6_Witness ==
    /\ pc = "exit" /\ exitCode = 0
    /\ delivered = 3 /\ Len(written) = 3 /\ frameCount = 3

\* C7: past the range check the width lies in 20..300, and main returns
\* before entering the converter only with exit code 1, nothing opened, and
\* then there were fewer than two paths or the width lies outside 20..300;
\* "19" and "301" are rejected, "20" and "300" are not; without a third
\* argument the width is 80.
C7_WidthAcceptedIffInRange ==
    /\ (argc >= 3 /\ pc \notin {"main", "parse", "validate"} /\ ~ArgRejected)
          => asciiWidth >= 20 /\ asciiWidth <= 300
    /\ ArgRejected
          => /\ exitCode = 1
             /\ writer = "none" /\ tried = <<>> /\ delivered = 0
             /\ argc < 3 \/ asciiWidth < 20 \/ asciiWidth > 300
    /\ (pc = "exit" /\ argv3 \in {<<"1", "9">>, <<"3", "0", "1">>}) => ArgRejected
    /\ argv3 \in {<<"2", "0">>, <<"3", "0", "0">>} => ~ArgRejected
    /\ (argc = 3 /\ pc \notin {"main", "parse"}) => asciiWidth = 80

C7_Witness ==
    /\ argv3 = <<"3", "0", "0">>
    /\ asciiWidth = 300
    /\ cap = "open"

\* C8: a third argument that is not a number never gets past main: nothing
\* is opened and main returns 1.
C8_NonNumericRejected ==
    (argc >= 4 /\ ~IsNumber(argv3))
    => /\ cap = "none" /\ writer = "none"
       /\ pc = "exit" => exitCode = 1

\* C9: main returns 0 or 1 and nothing else: 0 exactly when
\* convertToColorASCII returned true, 1 for too few arguments, for a width out
\* of range, for an input that did not open and for an output no codec opened.
C9_ExitCodes ==
    /\ pc # "exit" => exitCode = -1
    /\ pc = "exit"
          => /\ exitCode \in {0, 1}
             /\ exitCode = 0 <=> convertResult = "true"
             /\ argc < 3 => exitCode = 1
             /\ (asciiWidth < 20 \/ asciiWidth > 300) => exitCode = 1
             /\ cap = "failed" => exitCode = 1
             /\ (cap # "none" /\ ~writerOpened) => exitCode = 1
             /\ exitCode = 0 => Len(written) = delivered /\ writerOpened

C9_Witness ==
    /\ pc = "exit" /\ exitCode = 1
    /\ cap = "failed"

\* C10: once convertToColorASCII has returned, neither the source nor the
\* sink is held open: the source is released when no codec opened the sink,
\* source and sink are both released after the loop.
C10_HandlesReleased ==
    /\ pc \in {"report", "exit"} => cap # "open" /\ writer # "open"
    /\ EncodeFailed => cap = "released"
    /\ convertResult = "true" => cap = "released" /\ writer = "released"
    /\ convertResult = "none" => cap # "released" /\ writer # "released"

C10_Witness ==
    /\ pc = "report"
    /\ convertResult = "true"
    /\ cap = "released" /\ writer = "released"
    /\ Len(written) > 0

\* the state of the driver, in the words of the specification's state machine
DriverState ==
    IF pc \in {"main", "parse", "validate", "open"} THEN "Idle"
    ELSE IF pc = "grid" THEN "SourceOpened"
    ELSE IF pc = "codec" \/ (pc = "sink" /\ ~writerOpened) THEN "GridComputed"
    ELSE IF pc = "sink" THEN "SinkOpened"
    ELSE IF pc \in {"read", "transform", "write", "finish"} THEN "Streaming"
    ELSE IF convertResult = "true" THEN "Finished"
    ELSE "Failed"

DriverOrder ==
    <<"Idle", "SourceOpened", "GridComputed", "SinkOpened", "Streaming", "Finished">>

DriverRank(s) == CHOOSE i \in 1..Len(DriverOrder) : DriverOrder[i] = s

\* C11: a run that has ended either reports success having written as many
\* frames as the input's frame count, or reports failure having written none.
C11_NoPartialSuccess ==
    pc = "exit"
    => \/ exitCode = 0 /\ Len(written) = totalFrames
       \/ exitCode # 0 /\ written = <<>>

\* C12: the k-th frame written is the transform of the k-th frame read; a
\* frame is read only when every frame read before it has been written, so at
\* most one frame is between its read and its write.
C12_FramesInSourceOrder ==
    /\ \A k \in 1..Len(written) :
          written[k] = generateColorASCIIFrame(resizeFrame(k, asciiWidth, asciiHeight))
    /\ delivered - Len(written) \in {0, 1}
    /\ delivered - Len(written) = 1 <=> pc \in {"transform", "write"}
    /\ pc \in {"transform", "write"} => frame = delivered
    /\ pc = "write" => asciiFrame.src = Len(written) + 1

C12_Witness ==
    /\ pc = "write"
    /\ Len(written) = 2
    /\ delivered = 3
    /\ asciiFrame.src = 3

\* C13: every frame written, and the frame about to be written, measures
\* asciiWidth * 6 by asciiHeight * 12 pixels, the size the sink was opened with.
C13_FrameSizeConstant ==
    /\ \A k \in 1..Len(written) :
          /\ written[k].w = asciiWidth * 6
          /\ written[k].h = asciiHeight * 12
          /\ <<written[k].w, written[k].h>> = frameSize
    /\ pc = "write"
          => /\ <<asciiFrame.w, asciiFrame.h>> = frameSize
             /\ frameSize = <<asciiWidth * 6, asciiHeight * 12>>

C13_Witness ==
    /\ Len(written) = 2
    /\ asciiWidth = 150 /\ asciiHeight = 42
    /\ written[2].w = 900 /\ written[2].h = 504
    /\ frameSize = <<900, 504>>

\* C15: the driver moves through Idle, SourceOpened, GridComputed, SinkOpened,
\* Streaming, Finished one state at a time, or to Failed, and leaves neither
\* Finished nor Failed; the sink is touched only with the source opened and the
\* grid computed, and frames are read and written only with the sink opened.
C15_StepInOrder ==
    LET s == DriverState
        t == DriverState'
    IN \/ t = s
       \/ /\ s \notin {"Finished", "Failed"}
          /\ \/ t = "Failed"
             \/ t # "Failed" /\ DriverRank(t) = DriverRank(s) + 1

C15_ResourcesInOrder ==
    /\ writer # "none"
          => /\ cap \in {"open", "released"}
             /\ asciiHeight = computeAsciiHeight(asciiWidth, originalHeight, originalWidth)
             /\ frameSize = computeFrameSize(asciiWidth, asciiHeight)
    /\ tried # <<>> => writer # "none"
    /\ (delivered > 0 \/ written # <<>> \/ frame # 0) => writerOpened
    /\ DriverState = "Streaming" => writerOpened /\ cap = "open"

C15_DriverStateOrder == [] C15_ResourcesInOrder /\ [][C15_StepInOrder]_vars

C15_Witness ==
    /\ pc = "exit"
    /\ DriverState = "Finished"
    /\ delivered = 2

\* C18: with an accepted width and a source of positive width and height, the
\* grid has at least one row and the frame size handed to the sink is positive.
C18_GridHeightPositive ==
    (writer # "none" /\ originalWidth > 0 /\ originalHeight > 0
        /\ asciiWidth >= 20 /\ asciiWidth <= 300)
    => /\ asciiHeight >= 1
       /\ frameSize[1] > 0 /\ frameSize[2] > 0

\* C17: a progress line is printed exactly when the number of frames
\* processed reaches a positive multiple of 30, so frameCount frames have
\* produced frameCount div 30 lines; the i-th line is printed with frame 30*i
\* already written and shows (30*i / totalFrames) * 100 (an infinity when the
\* source reports no frame count).
C17_ProgressEvery30Frames ==
    /\ Len(progress) = frameCount \div 30
    /\ \A i \in 1..Len(progress) :
          /\ progress[i].frames = 30 * i
          /\ progress[i].written = 30 * i
          /\ progress[i].total = totalFrames
          /\ totalFrames > 0
                => /\ progress[i].percent.k = "num"
                   /\ progress[i].percent.den > 0
                   /\ progress[i].percent.num * totalFrames
                         = (30 * i) * 100 * progress[i].percent.den
          /\ totalFrames = 0 => progress[i].percent.k = "pinf"

C17_Witness ==
    /\ frameCount = 31
    /\ totalFrames = 30
    /\ Len(progress) = 1
    /\ progress[1].frames = 30 /\ progress[1].written = 30
    /\ progress[1].percent.num = 100 * progress[1].percent.den

\* C16: from the head of the streaming loop the run eventually ends with
\* success, source and sink released; and the loop is left only from the read
\* that returned an empty frame.
C16_LoopExitsOnEmptyFrame ==
    (pc \in {"read", "transform", "write"} /\ pc' \notin {"read", "transform", "write"})
    => /\ pc = "read"
       /\ frame' = 0
       /\ pc' = "finish"
       /\ delivered' = delivered /\ written' = written

C16_StreamingTerminates ==
    /\ (pc = "read")
          ~> (/\ pc = "exit" /\ exitCode = 0
              /\ convertResult = "true"
              /\ cap = "released" /\ writer = "released"
              /\ frame = 0
              /\ Len(written) = delivered)
    /\ [][C16_LoopExitsOnEmptyFrame]_vars

C16_Witness ==
    /\ pc = "exit" /\ exitCode = 0
    /\ delivered = MaxFrames
    /\ Len(written) = MaxFrames
    /\ frame = 0


(***************************************************************************)
(* Two runs on the same input.                                              *)
(***************************************************************************)
\* C14: a second call of convertToColorASCII on the same converter, with the
\* same input frames, source metadata, asciiWidth and codecs, ends with the
\* result, the grid dimensions, the canvas size, the codec, the written
\* frames and the sequence of glyph indices of the first call; and in either
\* call the frame counter counts the frames of that call only, because it is
\* set to 0 before the loop.
C14_RerunDeterministic ==
    /\ (run = 2 /\ pc = "report") =>
          /\ convertResult = firstRun.result
          /\ asciiWidth = firstRun.asciiWidth
          /\ asciiHeight = firstRun.asciiHeight
          /\ frameSize = firstRun.frameSize
          /\ usedCodec = firstRun.usedCodec
          /\ written = firstRun.written
          /\ glyphs = firstRun.glyphs
    /\ pc \in {"read", "transform"} => frameCount = Len(written)

\* the second call has converted all PairFrames frames, as the first did
C14_Witness ==
    /\ run = 2
    /\ pc = "report"
    /\ convertResult = "true"
    /\ firstRun.result = "true"
    /\ Len(firstRun.glyphs) = PairFrames
    /\ glyphs = firstRun.glyphs
    /\ \E i, j \in 1..Len(glyphs) : glyphs[i] # glyphs[j]
    /\ frameCount = PairFrames

\* the record of the run of src/miku.cpp, and of src/unnamed/part_000
mikuRun == IF variant = "miku" THEN thisRun ELSE firstRun
partRun == IF variant = "miku" THEN firstRun ELSE thisRun

\* C19: run on the same arguments, source and codecs, src/miku.cpp and
\* src/unnamed/part_000 end with the same exit code, codec, grid, written
\* frames and glyph indices whenever mp4v or avc1 can open; when neither can,
\* they differ only once the writer is to be opened: miku.cpp gives up after
\* mp4v and avc1 and fails, part_000 goes on to X264 and H264 and succeeds
\* iff one of them opens.
C19_VariantsEquivalent ==
    (run = 2 /\ pc = "exit") =>
        /\ mikuRun.asciiWidth = partRun.asciiWidth
        /\ mikuRun.cap = partRun.cap
        /\ mikuRun.asciiHeight = partRun.asciiHeight
        /\ mikuRun.frameSize = partRun.frameSize
        /\ IF available \cap {"mp4v", "avc1"} # {} \/ mikuRun.cap # "released"
           THEN /\ mikuRun.exitCode = partRun.exitCode
                /\ mikuRun.result = partRun.result
                /\ mikuRun.tried = partRun.tried
                /\ mikuRun.usedCodec = partRun.usedCodec
                /\ mikuRun.written = partRun.written
                /\ mikuRun.glyphs = partRun.glyphs
           ELSE /\ mikuRun.result = "false"
                /\ mikuRun.exitCode = 1
                /\ mikuRun.tried = <<"mp4v", "avc1">>
                /\ mikuRun.written = <<>>
                /\ SubSeq(partRun.tried, 1, 3) = <<"mp4v", "avc1", "X264">>
                /\ partRun.result = "true" <=> available \cap {"X264", "H264"} # {}
                /\ partRun.exitCode = 0 <=> available \cap {"X264", "H264"} # {}
                /\ "H264" \in available /\ "X264" \notin available
                      => partRun.usedCodec = "H264"

\* both programs fell back to avc1 and wrote the same PairFrames frames
C19_Witness ==
    /\ run = 2
    /\ pc = "exit"
    /\ "mp4v" \notin available
    /\ mikuRun.usedCodec = "avc1"
    /\ partRun.usedCodec = "avc1"
    /\ mikuRun.exitCode = 0
    /\ Len(mikuRun.written) = PairFrames
    /\ mikuRun.written = partRun.written
    /\ mikuRun.glyphs = partRun.glyphs
    /\ Len(mikuRun.glyphs) = PairFrames

====
